---- MODULE Spec2Model ----
(***************************************************************************)
(* Build-time asset pipeline of PTL-Landing:                               *)
(*   scripts/fingerprint-assets.js  content-fingerprints tailwind.css and  *)
(*       the two Cormorant fonts and rewrites their URLs in index.html;    *)
(*   the font subsetter (second script) derives the glyph set of           *)
(*       index.html, compacts it into a --unicodes argument and subsets    *)
(*       the fonts in place through fontTools.                             *)
(* Text (file contents, paths, arguments) is a sequence of UTF-16 code     *)
(* units, as in the JavaScript strings the scripts work on.                *)
(***************************************************************************)
EXTENDS Integers, Sequences, FiniteSets, TLC

----------------------------------------------------------------------------
(* Text literals.  Ascii[i] is the character of code unit i + 31 (the grave *)
(* accent, code unit 96, is spelled out: it cannot stand in a string).      *)
Ascii ==
  <<
     " ", "!", "\"", "#", "$", "%", "&", "'", "(", ")", "*", "+", ",", "-", ".", "/",
     "0", "1", "2", "3", "4", "5", "6", "7", "8", "9", ":", ";", "<", "=", ">", "?",
     "@", "A", "B", "C", "D", "E", "F", "G", "H", "I", "J", "K", "L", "M", "N", "O",
     "P", "Q", "R", "S", "T", "U", "V", "W", "X", "Y", "Z", "[", "\\", "]", "^", "_",
     "grave", "a", "b", "c", "d", "e", "f", "g", "h", "i", "j", "k", "l", "m", "n", "o",
     "p", "q", "r", "s", "t", "u", "v", "w", "x", "y", "z", "{", "|", "}", "~"
  >>

Ord(c) == 31 + (CHOOSE i \in 1..Len(Ascii) : Ascii[i] = c)

Lit(t) == [i \in 1..Len(t) |-> Ord(t[i])]

RECURSIVE Flatten(_)
Flatten(ss) == IF ss = <<>> THEN <<>> ELSE Head(ss) \o Flatten(Tail(ss))

SetOf(s) == {s[i] : i \in 1..Len(s)}

\* The characters and names the scripts spell out.
Slash == Ord("/")
Dot == Ord(".")
Zero == Ord("0")
Backslash == Ord("\\")
UPlus == Lit(<<"U", "+">>)
Dash == Lit(<<"-">>)
Comma == Lit(<<",">>)
AssetsDir == Lit(<<"/", "a", "s", "s", "e", "t", "s", "/">>)
FontsDir == Lit(<<"/", "f", "o", "n", "t", "s", "/">>)
TailwindBase == Lit(<<"t", "a", "i", "l", "w", "i", "n", "d">>)
RegularBase == Lit(<<"C", "o", "r", "m", "o", "r", "a", "n", "t", " ", "V", "a", "r", "i", "a", "b", "l", "e", " ", "F", "o", "n", "t">>)
ItalicBase == Lit(<<"C", "o", "r", "m", "o", "r", "a", "n", "t", " ", "I", "t", "a", "l", "i", "c", " ", "V", "a", "r", "i", "a", "b", "l", "e", " ", "F", "o", "n", "t">>)
CssExt == Lit(<<".", "c", "s", "s">>)
Woff2Ext == Lit(<<".", "w", "o", "f", "f", "2">>)
\* Digests of the modelled contents.
DigestX == Lit(<<"3", "f", "9", "a", "0", "c", "7", "1", "b", "e">>)
DigestY == Lit(<<"b", "0", "2", "e", "4", "4", "d", "1", "9", "a">>)
DigestSX == Lit(<<"7", "7", "c", "1", "e", "0", "5", "a", "3", "d">>)
DigestSY == Lit(<<"e", "8", "d", "4", "b", "6", "f", "2", "1", "0">>)
DigestJ == Lit(<<"0", "a", "5", "c", "9", "3", "f", "7", "e", "1">>)

----------------------------------------------------------------------------
(* Range Compactor: charsToUnicodeArg of the font subsetter.               *)
(* A character `ch' is a JavaScript string: a sequence of code units.      *)

\* ch.codePointAt(0): a leading surrogate followed by a trailing surrogate
\* is one scalar value, anything else is the first code unit.
codePointAt(ch) ==
  IF /\ Len(ch) >= 2
     /\ ch[1] \in 55296..56319
     /\ ch[2] \in 56320..57343
  THEN (ch[1] - 55296) * 1024 + (ch[2] - 56320) + 65536
  ELSE ch[1]

\* chars.map((ch) => ch.codePointAt(0))
codepoints(chars) == [i \in 1..Len(chars) |-> codePointAt(chars[i])]

\* codepoints.sort((a, b) => a - b): ascending numeric order, duplicates
\* kept.  The pivot is the middle element.
RECURSIVE sortAscending(_)
sortAscending(s) ==
  IF Len(s) <= 1 THEN s
  ELSE LET p == s[(Len(s) + 1) \div 2]
       IN sortAscending(SelectSeq(s, LAMBDA x : x < p))
            \o SelectSeq(s, LAMBDA x : x = p)
            \o sortAscending(SelectSeq(s, LAMBDA x : x > p))

\* `null' of start and prev.
Null == -1

\* let start = null; let prev = null; const ranges = [];
MergeInit == [ranges |-> <<>>, start |-> Null, prev |-> Null]

\* Faulty variants of the test of the loop: one merges nothing, the other
\* merges across gaps.
ConsecutiveNever(prev, cp) == FALSE

ConsecutiveOrLater(prev, cp) == cp >= prev + 1

\* if (cp === prev + 1)
Consecutive(prev, cp) == cp = prev + 1

\* One iteration of `for (const cp of codepoints)'.
MergeStep(st, cp) ==
  IF st.start = Null
  THEN [st EXCEPT !.start = cp, !.prev = cp]
  ELSE IF Consecutive(st.prev, cp)
  THEN [st EXCEPT !.prev = cp]
  ELSE [ranges |-> Append(st.ranges, <<st.start, st.prev>>),
        start |-> cp, prev |-> cp]

\* The iterations lo..hi of the loop, in order, from the state st.
RECURSIVE MergeLoopOver(_, _, _, _)
MergeLoopOver(cps, lo, hi, st) ==
  IF lo > hi THEN st
  ELSE IF lo = hi THEN MergeStep(st, cps[lo])
  ELSE LET mid == (lo + hi) \div 2
           half == MergeLoopOver(cps, lo, mid, st)
       IN \* the test has the first half evaluated before the second starts
          IF half.prev = Null THEN MergeLoopOver(cps, mid + 1, hi, half)
          ELSE MergeLoopOver(cps, mid + 1, hi, half)

MergeLoop(cps, st) == MergeLoopOver(cps, 1, Len(cps), st)

\* if (start !== null) ranges.push([start, prev]);
FinalPush(st) ==
  IF st.start # Null THEN Append(st.ranges, <<st.start, st.prev>>)
  ELSE st.ranges

\* The `ranges' array when the loop and the final push are done.
mergeRanges(chars) ==
  FinalPush(MergeLoop(sortAscending(codepoints(chars)), MergeInit))

\* One digit of cp.toString(16).toUpperCase(): 0-9 then A-F.
HexDigit(d) == IF d < 10 THEN 48 + d ELSE 65 + (d - 10)

RECURSIVE toString16(_)
toString16(n) ==
  IF n < 16 THEN <<HexDigit(n)>>
  ELSE Append(toString16(n \div 16), HexDigit(n % 16))

RECURSIVE padStart(_, _, _)
padStart(s, n, c) == IF Len(s) >= n THEN s ELSE padStart(<<c>> \o s, n, c)

\* const fmt = (cp) => cp.toString(16).toUpperCase().padStart(4, '0');
fmt(cp) == padStart(toString16(cp), 4, Zero)

\* A faulty variant: the end of a range carries a prefix of its own.
rangeTokenBothPrefixed(r) ==
  IF r[1] = r[2]
  THEN UPlus \o fmt(r[1])
  ELSE UPlus \o fmt(r[1]) \o Dash \o UPlus \o fmt(r[2])

\* ([a, b]) => (a === b ? `U+${fmt(a)}` : `U+${fmt(a)}-${fmt(b)}`)
rangeToken(r) ==
  IF r[1] = r[2]
  THEN UPlus \o fmt(r[1])
  ELSE UPlus \o fmt(r[1]) \o Dash \o fmt(r[2])

\* Array.prototype.join
RECURSIVE join(_, _)
join(parts, sep) ==
  IF parts = <<>> THEN <<>>
  ELSE IF Len(parts) = 1 THEN Head(parts)
  ELSE Head(parts) \o sep \o join(Tail(parts), sep)

serializeRanges(ranges) ==
  join([i \in 1..Len(ranges) |-> rangeToken(ranges[i])], Comma)

charsToUnicodeArg(chars) == serializeRanges(mergeRanges(chars))

----------------------------------------------------------------------------
(* Glyph Extractor: extractCharsFromHTML of the font subsetter.            *)

Less == Ord("<")
Greater == Ord(">")
Space == Ord(" ")
ScriptOpen == Lit(<<"<", "s", "c", "r", "i", "p", "t">>)
ScriptClose == Lit(<<"<", "/", "s", "c", "r", "i", "p", "t", ">">>)
StyleOpen == Lit(<<"<", "s", "t", "y", "l", "e">>)
StyleClose == Lit(<<"<", "/", "s", "t", "y", "l", "e", ">">>)
EntNbsp == Lit(<<"&", "n", "b", "s", "p", ";">>)
EntAmp == Lit(<<"&", "a", "m", "p", ";">>)
EntLt == Lit(<<"&", "l", "t", ";">>)
EntGt == Lit(<<"&", "g", "t", ";">>)
EntQuot == Lit(<<"&", "q", "u", "o", "t", ";">>)
EntApos == Lit(<<"&", "#", "3", "9", ";">>)

Min(S) == CHOOSE x \in S : \A y \in S : x <= y
Max(S) == CHOOSE x \in S : \A y \in S : y <= x

startsAt(text, i, lit) ==
  /\ i + Len(lit) - 1 <= Len(text)
  /\ \A k \in 1..Len(lit) : text[i + k - 1] = lit[k]

\* The i flag: letters compare without case.
lower(c) == IF c \in 65..90 THEN c + 32 ELSE c

startsAtNoCase(text, i, lit) ==
  /\ i + Len(lit) - 1 <= Len(text)
  /\ \A k \in 1..Len(lit) : lower(text[i + k - 1]) = lit[k]

\* /<script[\s\S]*?<\/script>/gi (and the same for style) tried at i: the
\* position after the nearest closing tag, or 0 when there is no match.
blockEnd(text, i, open, close) ==
  IF ~startsAtNoCase(text, i, open) THEN 0
  ELSE LET cs == {p \in (i + Len(open))..Len(text) :
                    startsAtNoCase(text, p, close)}
       IN IF cs = {} THEN 0 ELSE Min(cs) + Len(close)

\* .replace(/<script[\s\S]*?<\/script>/gi, '')
RECURSIVE stripBlocks(_, _, _, _)
stripBlocks(text, i, open, close) ==
  LET ms == {p \in i..Len(text) :
               text[p] = Less /\ blockEnd(text, p, open, close) > 0}
  IN IF ms = {} THEN SubSeq(text, i, Len(text))
     ELSE SubSeq(text, i, Min(ms) - 1)
            \o stripBlocks(text, blockEnd(text, Min(ms), open, close),
                           open, close)

\* /<[^>]*>/ tried at i.
tagEnd(text, i) ==
  IF text[i] # Less THEN 0
  ELSE LET gs == {p \in (i + 1)..Len(text) : text[p] = Greater}
       IN IF gs = {} THEN 0 ELSE Min(gs) + 1

\* .replace(/<[^>]*>/g, ' ')
RECURSIVE stripTags(_, _)
stripTags(text, i) ==
  LET ms == {p \in i..Len(text) : tagEnd(text, p) > 0}
  IN IF ms = {} THEN SubSeq(text, i, Len(text))
     ELSE SubSeq(text, i, Min(ms) - 1) \o <<Space>>
            \o stripTags(text, tagEnd(text, Min(ms)))

\* text.replace(/needle/g, replacement) for a literal needle.
RECURSIVE replaceLiteral(_, _, _, _)
replaceLiteral(text, i, needle, replacement) ==
  LET ps == {p \in i..Len(text) : startsAt(text, p, needle)}
  IN IF ps = {} THEN SubSeq(text, i, Len(text))
     ELSE SubSeq(text, i, Min(ps) - 1) \o replacement
            \o replaceLiteral(text, Min(ps) + Len(needle), needle, replacement)

\* The six entities, decoded in the order of the chain.
decodeEntities(text) ==
  LET t1 == replaceLiteral(text, 1, EntNbsp, <<Space>>)
      t2 == replaceLiteral(t1, 1, EntAmp, <<Ord("&")>>)
      t3 == replaceLiteral(t2, 1, EntLt, <<Less>>)
      t4 == replaceLiteral(t3, 1, EntGt, <<Greater>>)
      t5 == replaceLiteral(t4, 1, EntQuot, <<Ord("\"")>>)
  IN replaceLiteral(t5, 1, EntApos, <<Ord("'")>>)

\* let text = html.replace(...)...: the page text of the document.
pageText(html) ==
  decodeEntities(
    stripTags(
      stripBlocks(stripBlocks(html, 1, ScriptOpen, ScriptClose),
                  1, StyleOpen, StyleClose),
      1))

\* const base: tab, newline, space, the digits, the letters and the
\* punctuation listed, which is all of printable ASCII and U+2013, U+2014,
\* U+2011.
baseChars == {9, 10} \cup (32..126) \cup {8211, 8212, 8209}

\* const extras: U+00A9, U+2018, U+2019, U+2013, U+2014, U+2011.
extrasChars == {169, 8216, 8217, 8211, 8212, 8209}

\* The code units of S in ascending order, found by halving lo..hi.
RECURSIVE sortedUnits(_, _, _)
sortedUnits(S, lo, hi) ==
  IF S = {} THEN <<>>
  ELSE IF lo = hi THEN <<lo>>
  ELSE LET mid == (lo + hi) \div 2
       IN sortedUnits({x \in S : x <= mid}, lo, mid)
            \o sortedUnits({x \in S : x > mid}, mid + 1, hi)

\* new Set((text + base + extras).split('')): split('') cuts the string
\* into UTF-16 code units, so each element is one code unit.
glyphUnits(html) == SetOf(pageText(html)) \cup baseChars \cup extrasChars

\* Array.from(set).sort(): one-unit strings in code unit order.
extractCharsFromHTML(html) ==
  LET units == sortedUnits(glyphUnits(html), 0, 65535)
  IN [i \in 1..Len(units) |-> <<units[i]>>]

----------------------------------------------------------------------------
(* Fingerprinter: scripts/fingerprint-assets.js.                           *)

\* const cssFile / fontRegular / fontItalic: the three candidate assets.
cssFile == "css"
fontRegular == "reg"
fontItalic == "ita"

\* [cssFile, fontRegular, fontItalic], in the order main() lists them.
Candidates == <<cssFile, fontRegular, fontItalic>>

Assets == {cssFile, fontRegular, fontItalic}

\* '/' + the directory of the asset below ROOT, as toWeb renders it.
webDir(a) == IF a = cssFile THEN AssetsDir ELSE FontsDir

\* path.basename(file, ext)
baseName(a) ==
  IF a = cssFile THEN TailwindBase
  ELSE IF a = fontRegular THEN RegularBase
  ELSE ItalicBase

\* path.extname(file)
extName(a) == IF a = cssFile THEN CssExt ELSE Woff2Ext

\* The web path of the asset itself.
plainWeb(a) == webDir(a) \o baseName(a) \o extName(a)

\* toWeb(path.join(dir, `${base}.${hash}${ext}`)): the web path of the
\* hashed copy that ensureCopyWithHash names.
hashedWeb(a, hash) ==
  webDir(a) \o baseName(a) \o <<Dot>> \o hash \o extName(a)

\* File contents are abstract byte strings; "none" is a file that does not
\* exist.  SX and SY are subsetted fonts, J is truncated or stale output.
NoBytes == "none"
AllBytes == {"X", "Y", "SX", "SY", "J"}

\* A faulty variant: a digest that does not depend on the bytes.
hashFileConstant(bytes) == DigestX

\* hashFile: the first 10 hex digits of the SHA-256 of the bytes; distinct
\* contents of the model have distinct digests.
hashFile(bytes) ==
  CASE bytes = "X" -> DigestX
    [] bytes = "Y" -> DigestY
    [] bytes = "SX" -> DigestSX
    [] bytes = "SY" -> DigestSY
    [] OTHER -> DigestJ

\* The hashed copies on disk: records [asset, hash, bytes], one per path.
artifactExists(arts, a, hash) ==
  \E r \in arts : r.asset = a /\ r.hash = hash

\* The quantifier {8,12} of the three patterns.
HashMin == 8
HashMax == 12

\* [a-f0-9]
isHex(c) == c \in 48..57 \/ c \in 97..102

\* The lengths m for which \.[a-f0-9]{m} matches at j and the extension
\* follows; the greedy quantifier takes the largest.
groupLens(text, j, ext) ==
  {m \in HashMin..HashMax :
     /\ j + m <= Len(text)
     /\ text[j] = Dot
     /\ \A k \in 1..m : isHex(text[j + k])
     /\ startsAt(text, j + 1 + m, ext)}

\* A faulty variant: the pattern without the extension after the optional
\* group.
matchEndLoose(text, i, a) ==
  IF ~startsAt(text, i, webDir(a) \o baseName(a)) THEN 0
  ELSE LET j == i + Len(webDir(a)) + Len(baseName(a))
           lens == {m \in HashMin..HashMax :
                      /\ j + m <= Len(text)
                      /\ text[j] = Dot
                      /\ \A k \in 1..m : isHex(text[j + k])}
       IN IF lens # {} THEN j + 1 + Max(lens) ELSE j

\* /<dir><base>(?:\.[a-f0-9]{8,12})?<ext>/ tried at position i: the
\* position after the match, or 0 when the pattern does not match there.
matchEnd(text, i, a) ==
  IF ~startsAt(text, i, webDir(a) \o baseName(a)) THEN 0
  ELSE LET j == i + Len(webDir(a)) + Len(baseName(a))
           lens == groupLens(text, j, extName(a))
       IN IF lens # {} THEN j + 1 + Max(lens) + Len(extName(a))
          ELSE IF startsAt(text, j, extName(a)) THEN j + Len(extName(a))
          ELSE 0

\* The positions from i on where the pattern of asset a matches.
matchesFrom(text, i, a) ==
  {p \in i..Len(text) : text[p] = Slash /\ matchEnd(text, p, a) > 0}

\* content.replace(pattern, replacement) with the g flag: every match, left
\* to right, not overlapping.  The replacements hold no `$'.
RECURSIVE replaceEvery(_, _, _, _)
replaceEvery(text, i, a, replacement) ==
  LET ms == matchesFrom(text, i, a)
  IN IF ms = {} THEN SubSeq(text, i, Len(text))
     ELSE SubSeq(text, i, Min(ms) - 1) \o replacement
            \o replaceEvery(text, matchEnd(text, Min(ms), a), a, replacement)

\* A faulty variant: the pattern without its g flag, the first match only.
replaceAllFirstMatch(content, a, replacement) ==
  LET ms == matchesFrom(content, 1, a)
  IN IF ms = {} THEN content
     ELSE SubSeq(content, 1, Min(ms) - 1) \o replacement
            \o SubSeq(content, matchEnd(content, Min(ms), a), Len(content))

\* function replaceAll(content, pattern, replacement); the pattern is the
\* one of asset a.
replaceAll(content, a, replacement) == replaceEvery(content, 1, a, replacement)

\* s.replaceAll(from, to) for a one-character `from'.
RECURSIVE replaceChar(_, _, _)
replaceChar(s, from, to) ==
  LET ps == {p \in 1..Len(s) : s[p] = from}
  IN IF ps = {} THEN s
     ELSE SubSeq(s, 1, Min(ps) - 1) \o to
            \o replaceChar(SubSeq(s, Min(ps) + 1, Len(s)), from, to)

\* regHashed.replaceAll('/', '\\/').replaceAll('.', '\\.')
escapedForm(web) ==
  replaceChar(replaceChar(web, Slash, <<Backslash, Slash>>),
              Dot, <<Backslash, Dot>>)

\* if (html.includes(escaped)) html = html.split(escaped).join(web): every
\* occurrence of the escaped spelling, left to right; a text without it is
\* left as it is.
splitJoin(text, needle, replacement) ==
  replaceLiteral(text, 1, needle, replacement)

\* The escaped-path fix of the two font blocks.
fixEscaped(html, web) == splitJoin(html, escapedForm(web), web)

\* A faulty variant: the pattern of a font block matches either font.
rewriteAssetEitherFont(html, a, web) ==
  IF a = cssFile THEN replaceAll(html, a, web)
  ELSE fixEscaped(replaceAll(replaceAll(html, fontRegular, web),
                             fontItalic, web), web)

\* The rewrite block of one asset: the stylesheet block has the pattern
\* replacement only, each font block the escaped-path fix after it.
rewriteAsset(html, a, web) ==
  IF a = cssFile THEN replaceAll(html, a, web)
  ELSE fixEscaped(replaceAll(html, a, web), web)

----------------------------------------------------------------------------
(* State.                                                                  *)

VARIABLES
  \* the file system below ROOT
  assetBytes,      \* [Assets -> AllBytes \cup {NoBytes}]: the three candidates
  artifacts,       \* the hashed copies: a set of [asset, hash, bytes]
  indexFile,       \* index.html: [exists, text]
  tmpBytes,        \* <font>.subset.tmp.woff2 of each font
  \* the process environment
  SKIP_FINGERPRINT,
  SKIP_FONT_SUBSET,
  \* one run of the fingerprinter's main()
  pc,              \* where main() stands; "idle" between runs
  files,           \* the candidates that exist
  fileIdx,         \* position of the copy loop in files
  outputs,         \* [Assets -> [defined, web]]: outputs[f], as a web path
  html,            \* the document in memory
  outcome,         \* how the last run ended
  fpLog,           \* what the last run printed
  fpExit,          \* the exit status of the last run
  \* bookkeeping of the runs, for the properties
  runs, editsLeft, faultsLeft,
  indexAtStart, artifactsAtStart, writes, copied, faultInRun, steady, fresh,
  \* one run of the subsetter's main()
  spc,             \* where main() stands; "idle" between runs
  unicodesArg,     \* the --unicodes argument
  fontIdx,         \* position of the loop in FILES
  depsResult,      \* what ensurePythonDeps met
  engineCalls,     \* the engine's invocations of the run, in order
  subLog, subOutcome, subExit,
  fontsAtStart, subRuns,
  \* charsToUnicodeArg applied to a drawn input
  chars, ranges, rpc

fsVars == <<assetBytes, artifacts, indexFile, tmpBytes>>
envVars == <<SKIP_FINGERPRINT, SKIP_FONT_SUBSET>>
fpVars == <<pc, files, fileIdx, outputs, html, outcome, fpLog, fpExit>>
histVars == <<runs, editsLeft, faultsLeft, indexAtStart, artifactsAtStart, writes,
              copied, faultInRun, steady, fresh>>
subVars == <<spc, unicodesArg, fontIdx, depsResult, engineCalls, subLog,
             subOutcome, subExit, fontsAtStart, subRuns>>
rangeVars == <<chars, ranges, rpc>>
vars == <<fsVars, envVars, fpVars, histVars, subVars, rangeVars>>

----------------------------------------------------------------------------
(* The documents index.html is drawn from: up to MaxSites reference sites, *)
(* each a quoted URL of one asset in one of the forms earlier builds and   *)
(* authors leave behind.                                                   *)

MaxSites == 2
MaxRuns == 2
MaxEdits == 1
MaxFaults == 1

Quote == Lit(<<"\"">>)

OldHash7 == Lit(<<"a", "b", "c", "d", "e", "f", "0">>)
OldHash8 == Lit(<<"d", "e", "a", "d", "b", "e", "e", "f">>)
OldHash12 == Lit(<<"0", "1", "2", "3", "4", "5", "6", "7", "8", "9", "a", "b">>)
OldHash13 == Lit(<<"0", "1", "2", "3", "4", "5", "6", "7", "8", "9", "a", "b", "c">>)

\* The forms drawn for each asset.  The assets start with content X, so
\* hashY is the path an earlier build of other content left and escX the
\* escaped spelling of the path this build writes.
kindsOf(a) ==
  IF a = cssFile THEN {"plain", "hashY", "hash8", "hash12"}
  ELSE IF a = fontRegular THEN {"plain", "hashY", "escX"}
  ELSE {"plain", "hash8", "escX"}

Forms == UNION {{[asset |-> a, kind |-> k] : k \in kindsOf(a)} : a \in Assets}

formText(f) ==
  CASE f.kind = "plain" -> plainWeb(f.asset)
    [] f.kind = "hashX" -> hashedWeb(f.asset, DigestX)
    [] f.kind = "hashY" -> hashedWeb(f.asset, DigestY)
    [] f.kind = "hash8" -> hashedWeb(f.asset, OldHash8)
    [] f.kind = "hash12" -> hashedWeb(f.asset, OldHash12)
    [] f.kind = "hash7" -> hashedWeb(f.asset, OldHash7)
    [] f.kind = "hash13" -> hashedWeb(f.asset, OldHash13)
    [] f.kind = "escX" -> escapedForm(hashedWeb(f.asset, DigestX))
    [] f.kind = "escY" -> escapedForm(hashedWeb(f.asset, DigestY))

Docs == UNION {[1..n -> Forms] : n \in 0..MaxSites}

\* The documents of the disturbed builds: plain references only.
PlainDocs == {d \in Docs : \A i \in 1..Len(d) : d[i].kind = "plain"}

docText(d) == Flatten([i \in 1..Len(d) |-> Quote \o formText(d[i]) \o Quote])

NoIndex == [exists |-> FALSE, text |-> <<>>]
IndexOf(text) == [exists |-> TRUE, text |-> text]

Undefined == [defined |-> FALSE, web |-> <<>>]

----------------------------------------------------------------------------
(* The fingerprinter's main(), one action per step of its body.            *)

Fonts == {fontRegular, fontItalic}

SubIdle ==
  /\ spc = "idle" /\ unicodesArg = <<>> /\ fontIdx = 0 /\ engineCalls = <<>>
  /\ depsResult = "none" /\ subLog = <<>> /\ subOutcome = "none"
  /\ subExit = Null /\ subRuns = 0
  /\ fontsAtStart = [f \in Fonts |-> NoBytes]

RangeIdle == chars = <<>> /\ ranges = <<>> /\ rpc = "unused"

FpIdle ==
  /\ pc = "idle" /\ files = <<>> /\ fileIdx = 0
  /\ outputs = [a \in Assets |-> Undefined]
  /\ html = <<>> /\ outcome = "none" /\ fpLog = <<>> /\ fpExit = Null
  /\ runs = 0
  /\ indexAtStart = NoIndex /\ artifactsAtStart = {} /\ writes = 0
  /\ copied = {} /\ faultInRun = FALSE /\ steady = FALSE /\ fresh = FALSE

Init ==
  /\ assetBytes \in [Assets -> {NoBytes, "X"}]
  /\ artifacts = {}
  /\ \/ \* any document, and builds nothing disturbs
        /\ \E d \in Docs : indexFile = IndexOf(docText(d))
        /\ editsLeft = 0
        /\ faultsLeft = 0
     \/ \* a plain document or none, and builds that edits of the assets
        \* and failures of the file system disturb
        /\ \/ indexFile = NoIndex
           \/ \E d \in PlainDocs : indexFile = IndexOf(docText(d))
        /\ editsLeft = MaxEdits
        /\ faultsLeft = MaxFaults
  /\ tmpBytes = [f \in Fonts |-> NoBytes]
  /\ SKIP_FINGERPRINT = FALSE
  /\ SKIP_FONT_SUBSET = FALSE
  /\ FpIdle /\ SubIdle /\ RangeIdle

\* A faulty variant: the catch block ends the process with status 1.
exitStatusOfFailure(how) == IF how \in {"warn", "error"} THEN 1 ELSE 0

\* The exit status of a run that ended `how': the fingerprinter's main()
\* returns, from the try block or from the catch block, and nothing sets
\* an exit code; the subsetter's main() returns or calls process.exit(0).
exitStatus(how) == 0

\* A faulty variant: the flag is never honoured.
skipIgnored(flag) == FALSE

\* process.env.SKIP_FINGERPRINT === '1', process.env.SKIP_FONT_SUBSET ===
\* '1': the flag holds whether the variable is set to '1'.
skipRequested(flag) == flag

\* main() returns: the process exits and the next run may start.
runEnds(how, line) ==
  /\ pc' = "idle"
  /\ fpExit' = exitStatus(how)
  /\ outcome' = how
  /\ fpLog' = Append(fpLog, line)
  /\ runs' = runs + 1
  /\ fresh' = TRUE

\* catch (err) { console.error('[fingerprint] WARN:', ...) }
caught == runEnds("warn", "WARN")

\* An operation of the file system fails.
fault ==
  /\ faultsLeft > 0
  /\ faultsLeft' = faultsLeft - 1
  /\ faultInRun' = TRUE

\* [cssFile, fontRegular, fontItalic].filter((f) => fs.existsSync(f))
existing(bytes) == SelectSeq(Candidates, LAMBDA f : bytes[f] # NoBytes)

\* main() up to the copy loop: the skip flag and the list of files.
FpStart ==
  /\ pc = "idle"
  /\ runs < MaxRuns
  /\ indexAtStart' = indexFile
  /\ artifactsAtStart' = artifacts
  /\ writes' = 0
  /\ copied' = {}
  /\ faultInRun' = FALSE
  /\ steady' = (fresh /\ outcome = "ok")
  /\ outputs' = [a \in Assets |-> Undefined]
  /\ html' = <<>>
  /\ fileIdx' = 1
  /\ IF skipRequested(SKIP_FINGERPRINT)
     THEN /\ files' = <<>>
          /\ pc' = "idle"
          /\ fpExit' = exitStatus("skipped")
          /\ outcome' = "skipped"
          /\ fpLog' = <<"SKIP_FINGERPRINT=1 set; skipping">>
          /\ runs' = runs + 1
          /\ fresh' = TRUE
     ELSE /\ files' = existing(assetBytes)
          /\ IF existing(assetBytes) = <<>>
             THEN /\ pc' = "idle"
                  /\ fpExit' = exitStatus("nothing")
                  /\ outcome' = "nothing"
                  /\ fpLog' = <<"No assets found to fingerprint. Skipping.">>
                  /\ runs' = runs + 1
                  /\ fresh' = TRUE
             ELSE /\ pc' = "copy"
                  /\ fpExit' = Null
                  /\ outcome' = "running"
                  /\ fpLog' = <<>>
                  /\ fresh' = FALSE
                  /\ UNCHANGED runs
  /\ UNCHANGED <<fsVars, envVars, editsLeft, faultsLeft, subVars, rangeVars>>

\* A faulty variant: the copy is made whether or not the artifact exists.
needsCopyAlways(arts, a, hash) == TRUE

\* if (!fs.existsSync(hashed))
needsCopy(arts, a, hash) == ~artifactExists(arts, a, hash)

\* fs.copyFileSync(file, hashed): the destination holds the source's bytes,
\* whatever it held.
copyFile(arts, a, hash, bytes) ==
  {r \in arts : ~(r.asset = a /\ r.hash = hash)}
    \cup {[asset |-> a, hash |-> hash, bytes |-> bytes]}

\* ensureCopyWithHash(file, hash)
ensureCopyWithHash(arts, a, hash, bytes) ==
  IF needsCopy(arts, a, hash) THEN copyFile(arts, a, hash, bytes) ELSE arts

\* One iteration of `for (const f of files)': hashFile, ensureCopyWithHash,
\* outputs[f] = hashedPath.
FpCopy ==
  /\ pc = "copy"
  /\ LET f == files[fileIdx]
         h == hashFile(assetBytes[f])
     IN \/ /\ artifacts' = ensureCopyWithHash(artifacts, f, h, assetBytes[f])
           /\ copied' = IF needsCopy(artifacts, f, h)
                        THEN copied \cup {<<f, h>>} ELSE copied
           /\ outputs' = [outputs EXCEPT
                            ![f] = [defined |-> TRUE, web |-> hashedWeb(f, h)]]
           /\ fpLog' = Append(fpLog, "hashed")
           /\ fileIdx' = fileIdx + 1
           /\ pc' = IF fileIdx = Len(files) THEN "read" ELSE "copy"
           /\ UNCHANGED <<assetBytes, indexFile, tmpBytes, outcome, fpExit,
                          runs, fresh, faultsLeft, faultInRun>>
        \/ \* fs.readFileSync(file) of hashFile throws
           /\ fault
           /\ caught
           /\ UNCHANGED <<fsVars, outputs, fileIdx, copied>>
        \/ \* fs.copyFileSync throws: the destination is absent, or is left
           \* behind with part of the bytes
           /\ needsCopy(artifacts, f, h)
           /\ fault
           /\ caught
           /\ artifacts' \in {artifacts, copyFile(artifacts, f, h, "J")}
           /\ UNCHANGED <<assetBytes, indexFile, tmpBytes, outputs, fileIdx,
                          copied>>
  /\ UNCHANGED <<envVars, files, html, editsLeft, indexAtStart, artifactsAtStart,
                 writes, steady, subVars, rangeVars>>

\* let html = fs.readFileSync(INDEX, 'utf8');
FpRead ==
  /\ pc = "read"
  /\ \/ /\ indexFile.exists
        /\ html' = indexFile.text
        /\ pc' = "css"
        /\ UNCHANGED <<outcome, fpLog, fpExit, runs, fresh, faultsLeft,
                       faultInRun>>
     \/ \* ENOENT
        /\ ~indexFile.exists
        /\ caught
        /\ UNCHANGED <<html, faultsLeft, faultInRun>>
     \/ /\ indexFile.exists
        /\ fault
        /\ caught
        /\ UNCHANGED html
  /\ UNCHANGED <<fsVars, envVars, files, fileIdx, outputs, editsLeft, indexAtStart,
                 artifactsAtStart, writes, copied, steady, subVars, rangeVars>>

\* toWeb(p) of an undefined p: path.relative(ROOT, undefined) throws a
\* TypeError.
toWebThrows(out) == ~out.defined

\* const cssHashed = toWeb(outputs[cssFile]); if (outputs[cssFile]) {...}
FpRewriteCss ==
  /\ pc = "css"
  /\ IF toWebThrows(outputs[cssFile])
     THEN /\ caught
          /\ UNCHANGED html
     ELSE /\ html' = IF outputs[cssFile].defined
                     THEN rewriteAsset(html, cssFile, outputs[cssFile].web)
                     ELSE html
          /\ pc' = "reg"
          /\ UNCHANGED <<outcome, fpLog, fpExit, runs, fresh>>
  /\ UNCHANGED <<fsVars, envVars, files, fileIdx, outputs, editsLeft, faultsLeft,
                 indexAtStart, artifactsAtStart, writes, copied, faultInRun,
                 steady, subVars, rangeVars>>

\* if (outputs[fontRegular]) {...} and then if (outputs[fontItalic]) {...}
FpRewriteFont(a) ==
  /\ pc = a
  /\ html' = IF outputs[a].defined
             THEN rewriteAsset(html, a, outputs[a].web)
             ELSE html
  /\ pc' = IF a = fontRegular THEN fontItalic ELSE "write"
  /\ UNCHANGED <<fsVars, envVars, files, fileIdx, outputs, outcome, fpLog,
                 fpExit, histVars, subVars, rangeVars>>

\* fs.writeFileSync(INDEX, html); log('Rewrote asset URLs in index.html');
\* A failing write leaves the file as it was (it could not be opened) or
\* truncated (it was opened, and the bytes did not all reach it).
FpWrite ==
  /\ pc = "write"
  /\ writes' = writes + 1
  /\ \/ /\ indexFile' = IndexOf(html)
        /\ runEnds("ok", "Rewrote asset URLs in index.html")
        /\ UNCHANGED <<faultsLeft, faultInRun>>
     \/ /\ fault
        /\ caught
        /\ indexFile' \in {indexFile, IndexOf(<<>>)}
  /\ UNCHANGED <<assetBytes, artifacts, tmpBytes, envVars, files, fileIdx,
                 outputs, html, editsLeft, indexAtStart, artifactsAtStart, copied,
                 steady, subVars, rangeVars>>

\* Between builds the asset is rebuilt with other content.
EditAsset(a) ==
  /\ pc = "idle"
  /\ spc = "idle"
  /\ editsLeft > 0
  /\ assetBytes[a] = "X"
  /\ assetBytes' = [assetBytes EXCEPT ![a] = "Y"]
  /\ editsLeft' = editsLeft - 1
  /\ fresh' = FALSE
  /\ UNCHANGED <<artifacts, indexFile, tmpBytes, envVars, fpVars, runs, faultsLeft,
                 indexAtStart, artifactsAtStart, writes, copied, faultInRun,
                 steady, subVars, rangeVars>>

\* The build sets SKIP_FINGERPRINT=1.
SetSkipFingerprint ==
  /\ pc = "idle"
  /\ editsLeft > 0
  /\ ~SKIP_FINGERPRINT
  /\ SKIP_FINGERPRINT' = TRUE
  /\ editsLeft' = editsLeft - 1
  /\ fresh' = FALSE
  /\ UNCHANGED <<fsVars, SKIP_FONT_SUBSET, fpVars, runs, faultsLeft, indexAtStart,
                 artifactsAtStart, writes, copied, faultInRun, steady, subVars,
                 rangeVars>>

Next ==
  \/ FpStart
  \/ FpCopy
  \/ FpRead
  \/ FpRewriteCss
  \/ FpRewriteFont(fontRegular)
  \/ FpRewriteFont(fontItalic)
  \/ FpWrite
  \/ \E a \in Assets : EditAsset(a)
  \/ SetSkipFingerprint

Spec == Init /\ [][Next]_vars

----------------------------------------------------------------------------
(* The font subsetter's main(), one action per step of its body.           *)

\* const FILES: the regular font, then the italic one.
FILES == <<fontRegular, fontItalic>>

\* The page of the subsetter's builds: <p>Caf&#233;</p>, the e-acute typed
\* as the character.
CafePage == Lit(<<"<", "p", ">", "C", "a", "f">>) \o <<233>> \o Lit(<<"<", "/", "p", ">">>)

SubDocs == {NoIndex, IndexOf(CafePage)}

SubInit ==
  /\ assetBytes \in {b \in [Assets -> {NoBytes, "X"}] : b[cssFile] = "X"}
  /\ artifacts = {}
  /\ indexFile \in SubDocs
  /\ tmpBytes = [f \in Fonts |-> NoBytes]
  /\ SKIP_FINGERPRINT = FALSE
  /\ SKIP_FONT_SUBSET \in BOOLEAN
  /\ editsLeft = 0
  /\ faultsLeft = MaxFaults
  /\ FpIdle /\ SubIdle /\ RangeIdle

\* The process exits with status 0: at the end of main(), or by
\* process.exit(0) in the catch block.
subEnds(how, lines) ==
  /\ spc' = "idle"
  /\ subOutcome' = how
  /\ subLog' = subLog \o lines
  /\ subExit' = exitStatus(how)
  /\ subRuns' = subRuns + 1

\* catch (err) { console.error('[subset-fonts] ERROR:', ...); process.exit(0) }
subCaught(lines) == subEnds("error", lines \o <<"ERROR">>)

\* main() up to the read of index.html: the skip flag.
SubStart ==
  /\ spc = "idle"
  /\ pc = "idle"
  /\ subRuns < MaxRuns
  /\ unicodesArg' = <<>>
  /\ fontIdx' = 1
  /\ depsResult' = "none"
  /\ engineCalls' = <<>>
  /\ fontsAtStart' = [f \in Fonts |-> assetBytes[f]]
  /\ IF skipRequested(SKIP_FONT_SUBSET)
     THEN /\ spc' = "idle"
          /\ subOutcome' = "skipped"
          /\ subLog' = <<"SKIP_FONT_SUBSET=1 set; skipping subsetting">>
          /\ subExit' = exitStatus("skipped")
          /\ subRuns' = subRuns + 1
     ELSE /\ spc' = "extract"
          /\ subOutcome' = "running"
          /\ subLog' = <<>>
          /\ subExit' = Null
          /\ UNCHANGED subRuns
  /\ UNCHANGED <<fsVars, envVars, fpVars, histVars, rangeVars>>

\* const chars = extractCharsFromHTML(index);
\* const unicodesArg = charsToUnicodeArg(chars); log(...)
SubExtract ==
  /\ spc = "extract"
  /\ \/ /\ indexFile.exists
        /\ unicodesArg' =
             charsToUnicodeArg(extractCharsFromHTML(indexFile.text))
        /\ subLog' = Append(subLog, "Derived glyphs")
        /\ spc' = "deps"
        /\ UNCHANGED <<subOutcome, subExit, subRuns, faultsLeft, faultInRun>>
     \/ \* fs.readFileSync(file, 'utf8') throws: ENOENT
        /\ ~indexFile.exists
        /\ subCaught(<<>>)
        /\ UNCHANGED <<unicodesArg, faultsLeft, faultInRun>>
     \/ /\ indexFile.exists
        /\ fault
        /\ subCaught(<<>>)
        /\ UNCHANGED unicodesArg
  /\ UNCHANGED <<fsVars, envVars, fpVars, runs, editsLeft, indexAtStart,
                 artifactsAtStart, writes, copied, steady, fresh, fontIdx,
                 depsResult, engineCalls, fontsAtStart, rangeVars>>

\* What the two commands of ensurePythonDeps can meet.  The first command
\* ends in `|| true' and its status is 0 whatever pip does; the second is
\* run as `python3 -m pip install' and, when that fails, as `pip install'.
DepsResults == {"installed", "fallback", "failed"}

\* A variant in which the failure of the fallback is swallowed.
depsNeverThrows(r) == FALSE

\* The fallback execSync sits in the catch block with nothing around it:
\* its failure leaves ensurePythonDeps as an exception.
depsThrows(r) == r = "failed"

\* ensurePythonDeps();
SubEnsureDeps ==
  /\ spc = "deps"
  /\ \E r \in DepsResults :
       /\ depsResult' = r
       /\ IF depsThrows(r)
          THEN subCaught(<<>>)
          ELSE /\ spc' = "fonts"
               /\ UNCHANGED <<subLog, subOutcome, subExit, subRuns>>
  /\ UNCHANGED <<fsVars, envVars, fpVars, histVars, unicodesArg, fontIdx,
                 engineCalls, fontsAtStart, rangeVars>>

\* The engine is a black box: its exit status, and whether it left the
\* output file it was asked for, whole or in part.
EngineOutcomes ==
  {[status |-> 0, out |-> "full"], [status |-> 0, out |-> "none"],
   [status |-> 1, out |-> "none"], [status |-> 1, out |-> "partial"]}

\* The subset of a font; a subsetted font subsets to itself.
subsetOf(bytes) ==
  CASE bytes = "X" -> "SX"
    [] bytes = "Y" -> "SY"
    [] OTHER -> bytes

\* outTmp after spawnSync('python3', args) returns.
tmpAfterEngine(tmp, bytes, out) ==
  CASE out = "full" -> subsetOf(bytes)
    [] out = "partial" -> "J"
    [] OTHER -> tmp

\* A faulty variant: && in place of ||.
subsetFailedOnBoth(status, tmp) == status # 0 /\ tmp = NoBytes

\* if (res.status !== 0 || !fs.existsSync(outTmp))
subsetFailed(status, tmp) == status # 0 \/ tmp = NoBytes

\* One iteration of `for (const f of FILES)': the existence test and
\* subsetOneFont(f, unicodesArg).  Each invocation of the engine is noted
\* in engineCalls with what the code did after it.
SubFont ==
  /\ spc = "fonts"
  /\ fontIdx <= Len(FILES)
  /\ LET f == FILES[fontIdx]
     IN \/ \* log(`Skip: ... not found.`); continue;
           /\ assetBytes[f] = NoBytes
           /\ subLog' = Append(subLog, "Skip: not found")
           /\ fontIdx' = fontIdx + 1
           /\ UNCHANGED <<assetBytes, tmpBytes, engineCalls, spc, subOutcome,
                          subExit, subRuns, faultsLeft, faultInRun>>
        \/ /\ assetBytes[f] # NoBytes
           /\ \E o \in EngineOutcomes :
                LET tmp == tmpAfterEngine(tmpBytes[f], assetBytes[f], o.out)
                    call == [font |-> f, status |-> o.status,
                             output |-> tmp # NoBytes, tmp |-> tmp,
                             fresh |-> o.out # "none",
                             before |-> assetBytes[f],
                             after |-> assetBytes[f],
                             renameCalled |-> FALSE, warned |-> FALSE]
                IN IF subsetFailed(o.status, tmp)
                   THEN \* log(`WARN: subsetting failed ...`); return false;
                        /\ tmpBytes' = [tmpBytes EXCEPT ![f] = tmp]
                        /\ engineCalls' =
                             Append(engineCalls, [call EXCEPT !.warned = TRUE])
                        /\ subLog' = subLog \o <<"Subsetting",
                                                 "WARN: subsetting failed">>
                        /\ fontIdx' = fontIdx + 1
                        /\ UNCHANGED <<assetBytes, spc, subOutcome, subExit,
                                       subRuns, faultsLeft, faultInRun>>
                   ELSE \/ \* fs.renameSync(outTmp, srcPath); return true;
                           /\ tmp # NoBytes
                           /\ assetBytes' = [assetBytes EXCEPT ![f] = tmp]
                           /\ tmpBytes' = [tmpBytes EXCEPT ![f] = NoBytes]
                           /\ engineCalls' =
                                Append(engineCalls,
                                       [call EXCEPT !.renameCalled = TRUE,
                                                    !.after = tmp])
                           /\ subLog' = Append(subLog, "Subsetting")
                           /\ fontIdx' = fontIdx + 1
                           /\ UNCHANGED <<spc, subOutcome, subExit, subRuns,
                                          faultsLeft, faultInRun>>
                        \/ \* fs.renameSync throws: there is no outTmp
                           /\ tmp = NoBytes
                           /\ tmpBytes' = [tmpBytes EXCEPT ![f] = tmp]
                           /\ engineCalls' =
                                Append(engineCalls,
                                       [call EXCEPT !.renameCalled = TRUE])
                           /\ subCaught(<<"Subsetting">>)
                           /\ UNCHANGED <<assetBytes, fontIdx, faultsLeft,
                                          faultInRun>>
                        \/ \* fs.renameSync throws: the file system fails,
                           \* and both files are as they were
                           /\ tmp # NoBytes
                           /\ fault
                           /\ tmpBytes' = [tmpBytes EXCEPT ![f] = tmp]
                           /\ engineCalls' =
                                Append(engineCalls,
                                       [call EXCEPT !.renameCalled = TRUE])
                           /\ subCaught(<<"Subsetting">>)
                           /\ UNCHANGED <<assetBytes, fontIdx>>
  /\ UNCHANGED <<artifacts, indexFile, envVars, fpVars, runs, editsLeft,
                 indexAtStart, artifactsAtStart, writes, copied, steady,
                 fresh, unicodesArg, depsResult, fontsAtStart, rangeVars>>

\* log('Done.'); main() returns.
SubDone ==
  /\ spc = "fonts"
  /\ fontIdx > Len(FILES)
  /\ subEnds("done", <<"Done.">>)
  /\ UNCHANGED <<fsVars, envVars, fpVars, histVars, unicodesArg, fontIdx,
                 depsResult, engineCalls, fontsAtStart, rangeVars>>

SubNext ==
  \/ SubStart
  \/ SubExtract
  \/ SubEnsureDeps
  \/ SubFont
  \/ SubDone

SpecSubset == SubInit /\ [][SubNext]_vars

----------------------------------------------------------------------------
(* charsToUnicodeArg on its own: every list of up to MaxChars distinct     *)
(* characters of a small pool, in every order.                             *)

MaxChars == 5

\* Code points on both sides of U+FFFF, single and in runs.
RangePool == {65, 66, 67, 69, 100, 65535, 65536, 65537}

\* String.fromCodePoint(cp): the character of a code point as code units.
fromCodePoint(cp) ==
  IF cp < 65536 THEN <<cp>>
  ELSE <<55296 + ((cp - 65536) \div 1024), 56320 + ((cp - 65536) % 1024)>>

\* A list of code points without a repetition.
distinct(s) == \A i, j \in 1..Len(s) : i # j => s[i] # s[j]

RangeInit ==
  /\ assetBytes = [a \in Assets |-> NoBytes]
  /\ artifacts = {}
  /\ indexFile = NoIndex
  /\ tmpBytes = [f \in Fonts |-> NoBytes]
  /\ SKIP_FINGERPRINT = FALSE
  /\ SKIP_FONT_SUBSET = FALSE
  /\ editsLeft = 0
  /\ faultsLeft = 0
  /\ FpIdle /\ SubIdle
  /\ \E n \in 0..MaxChars :
       \E s \in [1..n -> RangePool] :
         /\ distinct(s)
         /\ chars = [i \in 1..n |-> fromCodePoint(s[i])]
  /\ ranges = <<>>
  /\ rpc = "start"

\* const unicodesArg = charsToUnicodeArg(chars);
Compact ==
  /\ rpc = "start"
  /\ ranges' = mergeRanges(chars)
  /\ unicodesArg' = charsToUnicodeArg(chars)
  /\ rpc' = "done"
  /\ UNCHANGED <<fsVars, envVars, fpVars, histVars, spc, fontIdx, depsResult,
                 engineCalls, subLog, subOutcome, subExit, fontsAtStart,
                 subRuns, chars>>

RangeNext == Compact

SpecRange == RangeInit /\ [][RangeNext]_vars

----------------------------------------------------------------------------
(* Properties of the fingerprinter, checked under Spec.                    *)

\* A run has just ended: nothing was edited since.
afterRun == pc = "idle" /\ fresh

\* The positions where `needle' occurs in `text'.
occurrences(text, needle) ==
  {p \in 1..Len(text) : text[p] = needle[1] /\ startsAt(text, p, needle)}

\* A reference to asset a begins at p: its unhashed web path, or the path
\* with a digest of m lowercase hexadecimal characters before the extension.
unhashedAt(text, p, a) == startsAt(text, p, plainWeb(a))

digestAt(text, p, a, m) ==
  LET j == p + Len(webDir(a)) + Len(baseName(a))
  IN /\ startsAt(text, p, webDir(a) \o baseName(a) \o <<Dot>>)
     /\ j + m <= Len(text)
     /\ \A k \in 1..m : text[j + k] \in 48..57 \cup 97..102
     /\ startsAt(text, j + m + 1, extName(a))

referenceAt(text, p, a) ==
  unhashedAt(text, p, a) \/ \E m \in 8..12 : digestAt(text, p, a, m)

\* The reference at p is not the path `web'.
staleAt(text, p, a, web) ==
  \/ unhashedAt(text, p, a)
  \/ \E m \in 8..12 :
       /\ digestAt(text, p, a, m)
       /\ ~startsAt(text, p, web)

\* Every reference begins with the `/' of its directory.
references(text, a) ==
  {p \in 1..Len(text) : text[p] = Slash /\ referenceAt(text, p, a)}

staleReferences(text, a, web) ==
  {p \in 1..Len(text) : text[p] = Slash /\ staleAt(text, p, a, web)}

\* The path a run gives asset a: the name its present content hashes to.
currentWeb(a) == hashedWeb(a, hashFile(assetBytes[a]))

\* C1: after a run that ended with index.html written, for each asset that
\* exists, no reference to it in index.html is in a form other than its
\* current hashed path, unhashed or with another digest of 8 to 12 hex
\* characters, and every reference the file held at the start is there as
\* the current hashed path.
C1_ReferencesNormalized ==
  (afterRun /\ outcome = "ok") =>
    \A a \in Assets :
      assetBytes[a] # NoBytes =>
        /\ staleReferences(indexFile.text, a, currentWeb(a)) = {}
        /\ Cardinality(occurrences(indexFile.text, currentWeb(a)))
             >= Cardinality(references(indexAtStart.text, a))

\* A run has rewritten a document with two stale references to the
\* stylesheet, one of them with an earlier digest.
C1_Witness ==
  /\ afterRun /\ outcome = "ok"
  /\ assetBytes[cssFile] # NoBytes
  /\ Cardinality(staleReferences(indexAtStart.text, cssFile,
                                 currentWeb(cssFile))) = 2
  /\ \E p \in references(indexAtStart.text, cssFile) :
       ~unhashedAt(indexAtStart.text, p, cssFile)
  /\ Cardinality(occurrences(indexFile.text, currentWeb(cssFile))) = 2

\* C2: with index.html there and at least one of the three assets there,
\* whichever of them are there, a run in which no operation of the file
\* system fails creates the artifact of each asset that exists, rewrites
\* its references and writes index.html once.  The code does not: see
\* toWebThrows.
C2_AnySubsetOfAssets ==
  (/\ afterRun
   /\ ~SKIP_FINGERPRINT
   /\ ~faultInRun
   /\ indexAtStart.exists
   /\ \E a \in Assets : assetBytes[a] # NoBytes)
  => /\ outcome = "ok"
     /\ writes = 1
     /\ \A a \in Assets :
          assetBytes[a] # NoBytes =>
            /\ artifactExists(artifacts, a, hashFile(assetBytes[a]))
            /\ staleReferences(indexFile.text, a, currentWeb(a)) = {}

\* What of C2 the code does keep: the same, for the runs in which the
\* stylesheet is one of the assets that exist.
C2_WithStylesheet ==
  (/\ afterRun
   /\ ~SKIP_FINGERPRINT
   /\ ~faultInRun
   /\ indexAtStart.exists
   /\ assetBytes[cssFile] # NoBytes)
  => /\ outcome = "ok"
     /\ writes = 1
     /\ \A a \in Assets :
          assetBytes[a] # NoBytes =>
            /\ artifactExists(artifacts, a, hashFile(assetBytes[a]))
            /\ staleReferences(indexFile.text, a, currentWeb(a)) = {}

\* C3: an artifact, once created, is never overwritten, modified or
\* deleted: it is there, with its bytes, after every step of every run; and
\* when an asset whose artifact of content X exists is rebuilt with content
\* Y, after the next run that ends with index.html written the artifacts
\* named with the digests of X and of Y both exist and index.html refers to
\* the asset by the path of digest Y only.
artifactsKept == \A r \in artifacts : r \in artifacts'

afterRebuild(a) ==
  /\ afterRun /\ outcome = "ok"
  /\ assetBytes[a] = "Y"
  /\ [asset |-> a, hash |-> DigestX, bytes |-> "X"] \in artifactsAtStart

C3_ArtifactsImmutable ==
  /\ [][artifactsKept]_vars
  /\ [](\A a \in Assets :
          afterRebuild(a) =>
            /\ [asset |-> a, hash |-> DigestX, bytes |-> "X"] \in artifacts
            /\ \E r \in artifacts : r.asset = a /\ r.hash = DigestY
            /\ staleReferences(indexFile.text, a, hashedWeb(a, DigestY)) = {}
            /\ occurrences(indexFile.text, hashedWeb(a, DigestX)) = {}
            /\ Cardinality(occurrences(indexFile.text, hashedWeb(a, DigestY)))
                 = Cardinality(references(indexAtStart.text, a)))

\* The stylesheet was rebuilt between two runs and index.html, which
\* referred to it, now names the artifact of the new content.
C3_Witness ==
  /\ afterRebuild(cssFile)
  /\ runs = 2
  /\ occurrences(indexAtStart.text, hashedWeb(cssFile, DigestX)) # {}
  /\ occurrences(indexFile.text, hashedWeb(cssFile, DigestY)) # {}
  /\ Cardinality({r \in artifacts : r.asset = cssFile}) = 2

\* C4: a run over assets that did not change since the previous run, which
\* ended with index.html written, copies nothing and creates or writes no
\* file other than index.html: the artifacts are those of before, one for
\* the content of each asset that exists; and it ends without an error when
\* no operation of the file system fails in it.
C4_SteadyRunCopiesNothing ==
  (afterRun /\ steady) =>
    /\ copied = {}
    /\ artifacts = artifactsAtStart
    /\ \A a \in Assets :
         assetBytes[a] # NoBytes =>
           Cardinality({r \in artifacts :
                          r.asset = a /\ r.hash = hashFile(assetBytes[a])}) = 1
    /\ writes <= 1
    /\ ~faultInRun => (outcome = "ok" /\ fpExit = 0)

\* A second run over the three assets, unchanged, has ended.
C4_Witness ==
  /\ afterRun /\ steady
  /\ runs = 2
  /\ outcome = "ok"
  /\ \A a \in Assets : assetBytes[a] # NoBytes
  /\ Cardinality(artifacts) = 3

\* C5: when the assets did not change since the previous run, which ended
\* with index.html written, a run that ends with index.html written leaves
\* in it the bytes it held before the run.
C5_RewriteIdempotent ==
  (afterRun /\ steady /\ outcome = "ok") => indexFile = indexAtStart

\* A second run has written a document with references to a font again.
C5_Witness ==
  /\ afterRun /\ steady /\ outcome = "ok"
  /\ runs = 2
  /\ writes = 1
  /\ occurrences(indexFile.text, currentWeb(fontRegular)) # {}
  /\ assetBytes[fontRegular] # NoBytes

\* C6: index.html is written at most once in a run, with the text of all
\* the replacements, and a run that ends in the catch block leaves in
\* index.html what it held before the run.  The code does not keep the
\* last part: see FpWrite.
C6_IndexAllOrNothing ==
  /\ writes <= 1
  /\ (afterRun /\ outcome = "warn") => indexFile = indexAtStart

\* What of C6 the code does keep: at most one write, and the file as it
\* was after a run that ended in the catch block before the write.
C6_FailureBeforeWrite ==
  /\ writes <= 1
  /\ (afterRun /\ outcome = "warn" /\ writes = 0) => indexFile = indexAtStart

----------------------------------------------------------------------------
(* Properties of the font subsetter, checked under SpecSubset.             *)

\* The step is a return of the engine: a call is added to engineCalls.
engineReturned == Len(engineCalls') = Len(engineCalls) + 1

lastCall == engineCalls'[Len(engineCalls')]

\* C7: the font file is replaced, by the rename of the engine's output
\* over it, if and only if the engine exited with status 0 and the output
\* file exists, and by nothing else; when the rename returns the font holds
\* the bytes of the output; on a nonzero status or a missing output the
\* bytes of the font are unchanged, a warning is logged and the run goes on.
subsetVerified ==
  /\ engineReturned =>
       /\ lastCall.renameCalled <=> (lastCall.status = 0 /\ lastCall.output)
       /\ (lastCall.renameCalled /\ subOutcome' # "error") =>
            /\ assetBytes'[lastCall.font] = lastCall.tmp
            /\ tmpBytes'[lastCall.font] = NoBytes
       /\ (lastCall.status # 0 \/ ~lastCall.output) =>
            /\ assetBytes'[lastCall.font] = assetBytes[lastCall.font]
            /\ lastCall.warned
            /\ subLog'[Len(subLog')] = "WARN: subsetting failed"
            /\ spc' = "fonts"
  /\ \A f \in Fonts :
       assetBytes'[f] # assetBytes[f] =>
         engineReturned /\ lastCall.font = f /\ lastCall.renameCalled

C7_ReplacedOnlyOnVerifiedSuccess == [][subsetVerified]_vars

\* One run has replaced the regular font with its subset and kept the
\* italic one, for which the engine exited with a nonzero status and left
\* an output file.
C7_Witness ==
  /\ Len(engineCalls) = 2
  /\ engineCalls[1].font = fontRegular
  /\ engineCalls[1].status = 0 /\ engineCalls[1].output
  /\ engineCalls[1].renameCalled
  /\ assetBytes[fontRegular] = "SX"
  /\ engineCalls[2].status = 1 /\ engineCalls[2].output
  /\ engineCalls[2].warned
  /\ assetBytes[fontItalic] = "X"
  /\ spc = "idle" /\ subOutcome = "done"

\* The run has ended after the install command and its fallback failed.
installFailed == spc = "idle" /\ subRuns >= 1 /\ depsResult = "failed"

\* C8, as stated: when the install command and its fallback both fail, the
\* run still invokes the engine for each font file that exists.
C8_EngineInvokedAfterFailedInstall ==
  installFailed =>
    \A f \in Fonts :
      fontsAtStart[f] # NoBytes =>
        \E i \in 1..Len(engineCalls) : engineCalls[i].font = f

\* C8, amended: when the install command and its fallback both fail, the
\* exception of ensurePythonDeps ends the run in the catch block: an ERROR
\* is logged, the engine is invoked for no font, every font file holds the
\* bytes it held and the exit status is 0.
C8_FailedInstallEndsRun ==
  installFailed =>
    /\ engineCalls = <<>>
    /\ subOutcome = "error"
    /\ subLog[Len(subLog)] = "ERROR"
    /\ \A f \in Fonts : assetBytes[f] = fontsAtStart[f]
    /\ subExit = 0

\* The install failed in a run over both fonts.
C8_Witness ==
  /\ installFailed
  /\ \A f \in Fonts : fontsAtStart[f] = "X"
  /\ subLog = <<"Derived glyphs", "ERROR">>

----------------------------------------------------------------------------
(* Properties of charsToUnicodeArg, checked under SpecRange.               *)

\* The fonts the engine was invoked for in the present run, in order.
calledFonts == [i \in 1..Len(engineCalls) |-> engineCalls[i].font]

existedAtStart(f) == fontsAtStart[f] # NoBytes

\* The fonts of FILES that exist, in the order of FILES.
existingFonts == SelectSeq(FILES, existedAtStart)

\* The run has ended after it reached `for (const f of FILES)'.
loopReached ==
  spc = "idle" /\ subRuns >= 1 /\ depsResult \in {"installed", "fallback"}

\* C17: in a run that reaches the font loop the engine is invoked exactly
\* once for each font file that exists and never for a missing one, in the
\* order regular then italic.
C17_OncePerExistingFont == loopReached => calledFonts = existingFonts

\* What holds of every run: the invocations are a beginning of the existing
\* fonts in the order of FILES, each font at most once and none missing,
\* and all of them when the run ends with Done; a warning for one font
\* leaves the loop running.
C17_InOrderAtMostOnce ==
  /\ Len(calledFonts) <= Len(existingFonts)
  /\ calledFonts = SubSeq(existingFonts, 1, Len(calledFonts))
  /\ (spc = "idle" /\ subOutcome = "done") => calledFonts = existingFonts
  /\ (spc = "idle" /\ subOutcome = "error" /\ engineCalls # <<>>) =>
       /\ engineCalls[Len(engineCalls)].renameCalled
       /\ ~engineCalls[Len(engineCalls)].warned
  /\ \A i \in 1..(Len(engineCalls) - 1) :
       engineCalls[i].warned \/ engineCalls[i].after = engineCalls[i].tmp

\* C18: a font file is replaced only by output the engine produced in an
\* invocation with exit status 0 of the same run.
replacedByFreshOutput ==
  \A f \in Fonts :
    assetBytes'[f] # assetBytes[f] =>
      /\ engineReturned
      /\ lastCall.font = f
      /\ lastCall.status = 0
      /\ lastCall.fresh

C18_OnlyFreshOutputReplaces == [][replacedByFreshOutput]_vars

\* The tokens of a specification: the text between the commas.
RECURSIVE tokensOf(_)
tokensOf(arg) ==
  IF arg = <<>> THEN <<>>
  ELSE LET cs == {p \in 1..Len(arg) : <<arg[p]>> = Comma}
       IN IF cs = {} THEN <<arg>>
          ELSE <<SubSeq(arg, 1, Min(cs) - 1)>>
                 \o tokensOf(SubSeq(arg, Min(cs) + 1, Len(arg)))

\* The number a run of hexadecimal digits, 0-9 and A-F, spells.
RECURSIVE hexValue(_)
hexValue(digits) ==
  IF digits = <<>> THEN 0
  ELSE LET d == digits[Len(digits)]
       IN 16 * hexValue(SubSeq(digits, 1, Len(digits) - 1))
            + (IF d \in 48..57 THEN d - 48 ELSE d - 55)

wellFormedHex(digits) ==
  /\ Len(digits) >= 4
  /\ \A i \in 1..Len(digits) : digits[i] \in 48..57 \cup 65..70

\* A token is U+XXXX or U+XXXX-YYYY.
tokenParts(tok) ==
  LET body == SubSeq(tok, 3, Len(tok))
      ds == {p \in 1..Len(body) : <<body[p]>> = Dash}
  IN IF ds = {} THEN <<body, body>>
     ELSE <<SubSeq(body, 1, Min(ds) - 1), SubSeq(body, Min(ds) + 1, Len(body))>>

wellFormedToken(tok) ==
  /\ Len(tok) >= 6
  /\ SubSeq(tok, 1, 2) = UPlus
  /\ wellFormedHex(tokenParts(tok)[1])
  /\ wellFormedHex(tokenParts(tok)[2])

\* The code points a token stands for: one, or all from start to end.
decodeToken(tok) ==
  hexValue(tokenParts(tok)[1]) .. hexValue(tokenParts(tok)[2])

decodeArg(arg) ==
  UNION {decodeToken(tokensOf(arg)[i]) : i \in 1..Len(tokensOf(arg))}

\* The code points of the input.
inputSet == {codePointAt(chars[i]) : i \in 1..Len(chars)}

\* C9: the tokens of the specification charsToUnicodeArg returns for a
\* list of distinct code points are well formed and decode, each singleton
\* to its code point and each range to the code points from its start to
\* its end, to exactly the set of the input.
C9_RoundTrip ==
  rpc = "done" =>
    /\ \A i \in 1..Len(tokensOf(unicodesArg)) :
         wellFormedToken(tokensOf(unicodesArg)[i])
    /\ decodeArg(unicodesArg) = inputSet

\* The input, out of order, holds a run, a lone code point and a code point
\* above U+FFFF, and the specification has a range and singletons.
C9_Witness ==
  /\ rpc = "done"
  /\ {65, 66, 67, 69, 65537} = inputSet
  /\ codePointAt(chars[1]) = 69
  /\ Len(tokensOf(unicodesArg)) = 3
  /\ decodeToken(tokensOf(unicodesArg)[1]) = 65..67

\* The maximal runs of consecutive code points of a set: one for each
\* member whose predecessor is not a member.
runStarts(S) == {c \in S : c - 1 \notin S}

\* C10: the intervals charsToUnicodeArg produces are sorted ascending and
\* the start of each is at least 2 above the end of the one before it, so
\* they are disjoint and no two could be merged; their number, and the
\* number of tokens, is the number of maximal runs of consecutive code
\* points of the input.
C10_IntervalsMaximal ==
  rpc = "done" =>
    /\ \A i \in 1..Len(ranges) : ranges[i][1] <= ranges[i][2]
    /\ \A i \in 1..(Len(ranges) - 1) : ranges[i + 1][1] >= ranges[i][2] + 2
    /\ Len(ranges) = Cardinality(runStarts(inputSet))
    /\ Len(tokensOf(unicodesArg)) = Cardinality(runStarts(inputSet))

\* The input holds two runs that meet at U+FFFF and U+10000 and one code
\* point apart, and three intervals come of it.
C10_Witness ==
  /\ rpc = "done"
  /\ inputSet = {65, 67, 65535, 65536, 65537}
  /\ ranges = <<<<65, 65>>, <<67, 67>>, <<65535, 65537>>>>

\* The number of hexadecimal digits of n without padding.
RECURSIVE hexWidth(_)
hexWidth(n) == IF n < 16 THEN 1 ELSE 1 + hexWidth(n \div 16)

\* field spells cp in uppercase hexadecimal, padded with zeros to 4 digits
\* and no further.
rendersAs(field, cp) ==
  /\ Len(field) = (IF hexWidth(cp) < 4 THEN 4 ELSE hexWidth(cp))
  /\ \A i \in 1..Len(field) : field[i] \in 48..57 \cup 65..70
  /\ hexValue(field) = cp

countOf(tok, unit) == Cardinality({p \in 1..Len(tok) : tok[p] = unit})

\* tok is U+XXXX for a singleton and U+XXXX-YYYY for a range, with a single
\* leading U+.
tokenRenders(tok, r) ==
  /\ Len(tok) >= 6
  /\ SubSeq(tok, 1, 2) = UPlus
  /\ countOf(tok, UPlus[1]) = 1
  /\ countOf(tok, UPlus[2]) = 1
  /\ countOf(tok, Dash[1]) = (IF r[1] = r[2] THEN 0 ELSE 1)
  /\ rendersAs(tokenParts(tok)[1], r[1])
  /\ rendersAs(tokenParts(tok)[2], r[2])

ExampleArg ==
  Lit(<<"U", "+", "0", "0", "4", "1", "-", "0", "0", "4", "3", ",",
        "U", "+", "0", "0", "4", "5", ",",
        "U", "+", "0", "0", "6", "4">>)

\* C14: the specification is the tokens of the intervals joined by commas,
\* in ascending order; the token of an interval is U+XXXX when its start
\* equals its end and U+XXXX-YYYY otherwise, with one leading U+, the code
\* points in uppercase hexadecimal padded with zeros to 4 digits and wider
\* above 0xFFFF; for the code points {65, 66, 67, 69, 100} it is exactly
\* U+0041-0043,U+0045,U+0064.
C14_SerializationFormat ==
  rpc = "done" =>
    LET toks == tokensOf(unicodesArg)
    IN /\ Len(toks) = Len(ranges)
       /\ unicodesArg = join(toks, Comma)
       /\ \A i \in 1..Len(toks) : tokenRenders(toks[i], ranges[i])
       /\ \A i \in 1..(Len(toks) - 1) :
            hexValue(tokenParts(toks[i])[2])
              < hexValue(tokenParts(toks[i + 1])[1])
       /\ inputSet = {65, 66, 67, 69, 100} => unicodesArg = ExampleArg

\* The example of the claim, its code points given out of order.
C14_Witness ==
  /\ rpc = "done"
  /\ inputSet = {65, 66, 67, 69, 100}
  /\ codePointAt(chars[1]) = 100
  /\ unicodesArg = ExampleArg

\* A specification with a token wider than 4 digits.
C14_WitnessWide ==
  /\ rpc = "done"
  /\ inputSet = {65535, 65536, 65537}
  /\ Len(unicodesArg) = 12

----------------------------------------------------------------------------
(* extractCharsFromHTML and charsToUnicodeArg on pages put together from   *)
(* up to MaxFrags fragments: tags, text inside and outside the Basic       *)
(* Multilingual Plane, entities, a script and a style block.               *)

MaxFrags == 3

\* U+1F600 as JavaScript holds it: a leading and a trailing surrogate.
Grinning == <<55357, 56832>>

Fragments ==
  {Lit(<<"<", "p", ">">>),
   <<233>>,
   Grinning,
   EntAmp,
   ScriptOpen \o <<Greater, 8364>> \o ScriptClose,
   StyleOpen \o <<Greater, 8482>> \o StyleClose}

GlyphInit ==
  /\ assetBytes = [a \in Assets |-> NoBytes]
  /\ artifacts = {}
  /\ \E n \in 0..MaxFrags :
       \E fs \in [1..n -> Fragments] : indexFile = IndexOf(Flatten(fs))
  /\ tmpBytes = [f \in Fonts |-> NoBytes]
  /\ SKIP_FINGERPRINT = FALSE
  /\ SKIP_FONT_SUBSET = FALSE
  /\ editsLeft = 0
  /\ faultsLeft = 0
  /\ FpIdle /\ SubIdle
  /\ chars = <<>>
  /\ ranges = <<>>
  /\ rpc = "page"

\* const chars = extractCharsFromHTML(index);
Extract ==
  /\ rpc = "page"
  /\ chars' = extractCharsFromHTML(indexFile.text)
  /\ rpc' = "start"
  /\ UNCHANGED <<fsVars, envVars, fpVars, histVars, subVars, ranges>>

GlyphNext ==
  \/ Extract
  \/ Compact

SpecGlyph == GlyphInit /\ [][GlyphNext]_vars

----------------------------------------------------------------------------
(* Properties of the glyph set, checked under SpecGlyph.                   *)

\* A surrogate pair begins at p.
pairAt(text, p) ==
  /\ p < Len(text)
  /\ text[p] \in 55296..56319
  /\ text[p + 1] \in 56320..57343

\* The characters of a text as Unicode scalar values.
scalarsOf(text) ==
  {IF pairAt(text, p)
   THEN (text[p] - 55296) * 1024 + (text[p + 1] - 56320) + 65536
   ELSE text[p] :
     p \in {q \in 1..Len(text) : ~(q > 1 /\ pairAt(text, q - 1))}}

\* The characters the claim wants covered: those of the page text, of the
\* baseline and of the extras.
wanted == scalarsOf(pageText(indexFile.text)) \cup baseChars \cup extrasChars

\* C11: every character of the page text left after the script and style
\* blocks and the tags are stripped and the entities decoded, above U+FFFF
\* or not, and every character of the baseline and the extras, is in the
\* glyph set extractCharsFromHTML returns and is covered by the
\* specification derived from it.  The code does not keep this for the
\* characters above U+FFFF: see glyphUnits.
C11_GlyphSuperset ==
  rpc = "done" =>
    /\ wanted \subseteq inputSet
    /\ wanted \subseteq decodeArg(unicodesArg)

\* What of C11 the code does keep: the same for the characters up to
\* U+FFFF.
C11_GlyphSupersetBelow10000 ==
  rpc = "done" =>
    /\ {c \in wanted : c < 65536} \subseteq inputSet
    /\ {c \in wanted : c < 65536} \subseteq decodeArg(unicodesArg)

----------------------------------------------------------------------------
(* The build: the fingerprinter, then the font subsetter, and the same     *)
(* again for the next build.                                               *)

\* An index.html that refers to the three assets by their unhashed paths.
BuildPage ==
  docText(<<[asset |-> cssFile, kind |-> "plain"],
            [asset |-> fontRegular, kind |-> "plain"],
            [asset |-> fontItalic, kind |-> "plain"]>>)

BuildInit ==
  /\ assetBytes \in [Assets -> {NoBytes, "X"}]
  /\ artifacts = {}
  /\ indexFile \in {NoIndex, IndexOf(BuildPage)}
  /\ tmpBytes = [f \in Fonts |-> NoBytes]
  /\ SKIP_FINGERPRINT \in BOOLEAN
  /\ SKIP_FONT_SUBSET \in BOOLEAN
  /\ editsLeft = 0
  /\ faultsLeft = MaxFaults
  /\ FpIdle /\ SubIdle /\ RangeIdle

\* The build starts the fingerprinter when the subsetter of the build
\* before has exited.
BuildFingerprint ==
  /\ spc = "idle"
  /\ runs = subRuns
  /\ FpStart

\* The build starts the subsetter when the fingerprinter has exited.
BuildSubset ==
  /\ runs = subRuns + 1
  /\ SubStart

BuildNext ==
  \/ BuildFingerprint
  \/ FpCopy
  \/ FpRead
  \/ FpRewriteCss
  \/ FpRewriteFont(fontRegular)
  \/ FpRewriteFont(fontItalic)
  \/ FpWrite
  \/ BuildSubset
  \/ SubExtract
  \/ SubEnsureDeps
  \/ SubFont
  \/ SubDone

SpecBuild == BuildInit /\ [][BuildNext]_vars

----------------------------------------------------------------------------
(* Properties of the build, checked under SpecBuild.                       *)

\* How many steps a run has left at most: the steps of main() after the
\* present one, the iterations of its loop counted one by one.
fingerprinterLeft ==
  CASE pc = "idle" -> 0
    [] pc = "write" -> 1
    [] pc = fontItalic -> 2
    [] pc = fontRegular -> 3
    [] pc = "css" -> 4
    [] pc = "read" -> 5
    [] pc = "copy" -> 6 + Len(files) - fileIdx

subsetterLeft ==
  CASE spc = "idle" -> 0
    [] spc = "fonts" -> 2 + Len(FILES) - fontIdx
    [] spc = "deps" -> 2 + Len(FILES)
    [] spc = "extract" -> 3 + Len(FILES)

\* A step of a run in progress brings it nearer its end.
runsAdvance ==
  /\ (pc # "idle" /\ fpVars' # fpVars) =>
       fingerprinterLeft' < fingerprinterLeft
  /\ (spc # "idle" /\ subVars' # subVars) => subsetterLeft' < subsetterLeft

\* A run in progress is at a step of main(), its loop within its list.
atAStep ==
  /\ pc \in {"idle", "copy", "read", "css", fontRegular, fontItalic, "write"}
  /\ pc = "copy" => fileIdx \in 1..Len(files)
  /\ spc \in {"idle", "extract", "deps", "fonts"}
  /\ spc = "fonts" => fontIdx \in 1..(Len(FILES) + 1)

\* C12: every run of the fingerprinter and every run of the subsetter that
\* has ended has ended with exit status 0, whichever operations failed in
\* it (a missing index.html, a failing read, copy, write or rename, a
\* failing install, a failing engine); a failure takes the run nowhere but
\* to its exit: a run in progress is at a step of main() and every step
\* brings it nearer its end.
C12_ExitStatusZero ==
  /\ []((pc = "idle" /\ runs >= 1) => fpExit = 0)
  /\ []((spc = "idle" /\ subRuns >= 1) => subExit = 0)
  /\ []atAStep
  /\ [][runsAdvance]_vars

\* A build in which the fingerprinter ended in its catch block and the
\* subsetter in its own, the install having failed.
C12_Witness ==
  /\ pc = "idle" /\ spc = "idle"
  /\ runs = 1 /\ subRuns = 1
  /\ outcome = "warn" /\ fpExit = 0
  /\ subOutcome = "error" /\ depsResult = "failed" /\ subExit = 0

\* The messages of the two skips.
fingerprintSkipped ==
  /\ pc' = "idle"
  /\ outcome' = "skipped"
  /\ fpLog' = <<"SKIP_FINGERPRINT=1 set; skipping">>
  /\ fpExit' = 0
  /\ copied' = {} /\ writes' = 0

subsetSkipped ==
  /\ spc' = "idle"
  /\ subOutcome' = "skipped"
  /\ subLog' = <<"SKIP_FONT_SUBSET=1 set; skipping subsetting">>
  /\ subExit' = 0
  /\ engineCalls' = <<>> /\ depsResult' = "none"

\* C13: with SKIP_FINGERPRINT set to '1' the start of the fingerprinter is
\* the whole of its run, and with SKIP_FONT_SUBSET set to '1' the start of
\* the subsetter is the whole of its run: no file is created or modified
\* (the assets, the artifacts, index.html and the temporary outputs are as
\* they were), nothing is installed, the engine is not invoked, the skip
\* message is logged and the exit status is 0.
skipsDoNothing ==
  /\ (SKIP_FINGERPRINT /\ pc = "idle" /\ fpVars' # fpVars) =>
       (fingerprintSkipped /\ fsVars' = fsVars)
  /\ (SKIP_FONT_SUBSET /\ spc = "idle" /\ subVars' # subVars) =>
       (subsetSkipped /\ fsVars' = fsVars)

C13_SkipFlags == [][skipsDoNothing]_vars

\* A build over the three assets and index.html in which both steps were
\* skipped.
C13_Witness ==
  /\ pc = "idle" /\ spc = "idle"
  /\ runs = 1 /\ subRuns = 1
  /\ outcome = "skipped" /\ subOutcome = "skipped"
  /\ \A a \in Assets : assetBytes[a] = "X"
  /\ indexFile = IndexOf(BuildPage)
  /\ artifacts = {}

\* The build has ended.
buildEnded == pc = "idle" /\ spc = "idle" /\ runs >= 1 /\ runs = subRuns

\* C19: at the end of a build, fingerprinter then subsetter, every font
\* artifact index.html refers to holds the bytes of the font file at the
\* unhashed path.  The code does not keep this: the artifact is copied
\* before the subsetter replaces the font (FpCopy, SubFont).
C19_ReferencedFontIsSubsetted ==
  buildEnded =>
    \A f \in Fonts :
      \A r \in artifacts :
        (/\ r.asset = f
         /\ occurrences(indexFile.text, hashedWeb(f, r.hash)) # {})
        => r.bytes = assetBytes[f]

----------------------------------------------------------------------------
(* The fingerprinter on documents that hold, next to references in the     *)
(* forms the patterns are written for, escaped references with an earlier  *)
(* digest or to the stylesheet, and paths of other files.                  *)

\* Paths of files the fingerprinter does not track.
MinCss == AssetsDir \o TailwindBase \o Lit(<<".", "m", "i", "n">>) \o CssExt
CssMap == AssetsDir \o TailwindBase \o CssExt \o Lit(<<".", "m", "a", "p">>)

wideKindsOf(a) ==
  IF a = cssFile THEN {"plain", "escX", "min", "map", "hash7"}
  ELSE IF a = fontRegular THEN {"plain", "escX", "escY"}
  ELSE {"plain", "hashY"}

WideForms ==
  UNION {{[asset |-> a, kind |-> k] : k \in wideKindsOf(a)} : a \in Assets}

wideText(f) ==
  CASE f.kind = "min" -> MinCss
    [] f.kind = "map" -> CssMap
    [] OTHER -> formText(f)

WideDocs == UNION {[1..n -> WideForms] : n \in 0..MaxSites}

wideDocText(d) ==
  Flatten([i \in 1..Len(d) |-> Quote \o wideText(d[i]) \o Quote])

FormsInit ==
  /\ assetBytes \in {b \in [Assets -> {NoBytes, "X"}] : b[cssFile] = "X"}
  /\ artifacts = {}
  /\ \E d \in WideDocs : indexFile = IndexOf(wideDocText(d))
  /\ editsLeft = 0
  /\ faultsLeft = 0
  /\ tmpBytes = [f \in Fonts |-> NoBytes]
  /\ SKIP_FINGERPRINT = FALSE
  /\ SKIP_FONT_SUBSET = FALSE
  /\ FpIdle /\ SubIdle /\ RangeIdle

FormsNext ==
  \/ FpStart
  \/ FpCopy
  \/ FpRead
  \/ FpRewriteCss
  \/ FpRewriteFont(fontRegular)
  \/ FpRewriteFont(fontItalic)
  \/ FpWrite

SpecForms == FormsInit /\ [][FormsNext]_vars

----------------------------------------------------------------------------
(* Properties of the rewrite, checked under SpecForms.                     *)

\* The sites of a document: the texts between its quotes, and with them
\* the texts outside.  The paths and the digests hold no quote.
RECURSIVE sitesOf(_)
sitesOf(text) ==
  LET qs == {p \in 1..Len(text) : <<text[p]>> = Quote}
  IN IF qs = {} THEN <<text>>
     ELSE <<SubSeq(text, 1, Min(qs) - 1)>>
            \o sitesOf(SubSeq(text, Min(qs) + 1, Len(text)))

\* The site is a reference to asset a and nothing else.
namesAsset(site, a) ==
  /\ site # <<>>
  /\ referenceAt(site, 1, a)
  /\ \/ site = plainWeb(a)
     \/ Len(site) - Len(plainWeb(a)) - 1 \in 8..12

\* The site is spelled with escaped separators.
isEscaped(site) == \E p \in 1..Len(site) : site[p] = Backslash

\* The digests of the hashed paths earlier builds left.
EarlierDigests == {DigestX, DigestY, OldHash8}

\* C15: after a run that ended with index.html written, index.html holds
\* no hashed web path of an existing asset, stylesheet or font, spelled
\* with escaped separators and dots, whichever digest it embeds.
C15_EscapedFormsNormalized ==
  (afterRun /\ outcome = "ok") =>
    \A a \in Assets :
      assetBytes[a] # NoBytes =>
        \A h \in EarlierDigests :
          occurrences(indexFile.text, escapedForm(hashedWeb(a, h))) = {}

\* What the two font blocks do: the escaped spelling of the path the run
\* has just given a font is replaced by that path.
C15_CurrentFontEscapedFixed ==
  (afterRun /\ outcome = "ok") =>
    \A a \in Fonts :
      assetBytes[a] # NoBytes =>
        /\ occurrences(indexFile.text, escapedForm(currentWeb(a))) = {}
        /\ Cardinality(occurrences(indexFile.text, currentWeb(a)))
             >= Cardinality(occurrences(indexAtStart.text,
                                        escapedForm(currentWeb(a))))

\* C16: after a run that ended with index.html written, every site that
\* is not a reference to a tracked asset, unhashed or with a digest of 8
\* to 12 hex characters, holds the bytes it held before the run, and the
\* document has the sites it had.
C16_OnlyTrackedReferencesChange ==
  (afterRun /\ outcome = "ok") =>
    LET before == sitesOf(indexAtStart.text)
        after == sitesOf(indexFile.text)
    IN /\ Len(after) = Len(before)
       /\ \A i \in 1..Len(before) :
            (/\ \A a \in Assets : ~namesAsset(before[i], a)
             /\ ~isEscaped(before[i])) => after[i] = before[i]

\* What holds of the paths that do not begin with a tracked path.
C16_OtherPathsUnchanged ==
  (afterRun /\ outcome = "ok") =>
    LET before == sitesOf(indexAtStart.text)
        after == sitesOf(indexFile.text)
    IN /\ Len(after) = Len(before)
       /\ \A i \in 1..Len(before) :
            (/\ \A a \in Assets : references(before[i], a) = {}
             /\ ~isEscaped(before[i])) => after[i] = before[i]

\* The three rewrite blocks applied to a text in the order `order'.
RECURSIVE rewriteInOrder(_, _)
rewriteInOrder(text, order) ==
  IF order = <<>> THEN text
  ELSE LET a == Head(order)
       IN rewriteInOrder(IF outputs[a].defined
                         THEN rewriteAsset(text, a, outputs[a].web)
                         ELSE text,
                         Tail(order))

Orders ==
  {o \in [1..3 -> Assets] : \A i, j \in 1..3 : o[i] = o[j] => i = j}

\* A rewrite block has run: the block of the asset pc was at.
blockOf == IF pc = "css" THEN cssFile ELSE pc

\* The block of one asset leaves the references to the other two as they
\* are.
othersKept ==
  (pc \in {"css", fontRegular, fontItalic} /\ pc' # "idle") =>
    /\ Len(sitesOf(html')) = Len(sitesOf(html))
    /\ \A i \in 1..Len(sitesOf(html)) :
         (\E b \in Assets \ {blockOf} : namesAsset(sitesOf(html)[i], b))
           => sitesOf(html')[i] = sitesOf(html)[i]

\* C20: the rewrite of one asset changes no reference to another; after a
\* run that ended with index.html written each site that named an existing
\* asset holds the hashed path of that asset, and the three rewrites
\* applied in any order give the text that was written.
C20_RewritesIndependent ==
  /\ [][othersKept]_vars
  /\ []((afterRun /\ outcome = "ok") =>
         /\ \A i \in 1..Len(sitesOf(indexAtStart.text)) :
              \A a \in Assets :
                (/\ assetBytes[a] # NoBytes
                 /\ namesAsset(sitesOf(indexAtStart.text)[i], a))
                  => sitesOf(indexFile.text)[i] = currentWeb(a)
         /\ \A o \in Orders :
              rewriteInOrder(indexAtStart.text, o) = indexFile.text)

\* A run has rewritten a document that referred to the italic font with an
\* earlier digest and to the regular font.
C20_Witness ==
  /\ afterRun /\ outcome = "ok"
  /\ runs = 1
  /\ \A a \in Fonts : assetBytes[a] # NoBytes
  /\ Len(sitesOf(indexAtStart.text)) = 5
  /\ sitesOf(indexAtStart.text)[2] = hashedWeb(fontItalic, DigestY)
  /\ sitesOf(indexAtStart.text)[4] = plainWeb(fontRegular)
  /\ sitesOf(indexFile.text)[2] = currentWeb(fontItalic)
  /\ sitesOf(indexFile.text)[4] = currentWeb(fontRegular)

====
